---- MODULE Spec2Model ----
(***************************************************************************)
(* ExcelToPdfConverter (src/excel_to_pdf.py): one PDF per row of a sheet.  *)
(* The model follows one caller (main(), or a program using the class as   *)
(* example_usage.py does) through construction, list_sheets and one call   *)
(* of convert_all_rows, with the file system the converter writes to.      *)
(***************************************************************************)
EXTENDS Integers, Sequences, FiniteSets, TLC

VARIABLES
    wb,               \* the file at excel_file_path: [kind, sheets]
    fs,               \* the file system: folder -> [exists, files]
    fs0,              \* fs as it was when convert_all_rows was entered
    caller,           \* "main" (main()) or "api" (a program using the class)
    mpc,              \* the caller's position
    output_folder,    \* self.output_folder
    sheets,           \* main's local `sheets`, the result of list_sheets()
    sheet_name,       \* convert_all_rows' argument sheet_name
    filename_prefix,  \* convert_all_rows' argument filename_prefix
    pc,               \* convert_all_rows' position
    df,               \* convert_all_rows' local `df`
    idx,              \* number of iterations of the loop at line 145 done
    reads,            \* number of calls of read_excel_data in this run
    attempted,        \* row_index of every call of create_pdf_from_row, in order
    created,          \* filenames whose doc.build returned in this run
    failedRows,       \* row_index of every row whose doc.build raised
    log               \* what was printed, in order

vars == <<wb, fs, fs0, caller, mpc, output_folder, sheets, sheet_name,
          filename_prefix, pc, df, idx, reads, attempted, created, failedRows, log>>

-----------------------------------------------------------------------------
(* Bounds *)

MaxRows == 2

-----------------------------------------------------------------------------
(* Cell values and column labels: what pandas hands over.                   *)

StrV(s) == [t |-> "str", n |-> 0, s |-> s]
IntV(n) == [t |-> "int", n |-> n, s |-> ""]
FloatV(n) == [t |-> "float", n |-> n, s |-> ""]   \* the float n.0
NaN == [t |-> "nan", n |-> 0, s |-> ""]

\* pd.isna(value)
IsNa(value) == value.t = "nan"

\* Python's str(value): "28" for the int 28, "28.0" for the float 28.0,
\* "nan" for NaN, the text itself for a str
StrOf(value) ==
    CASE value.t = "str" -> value.s
      [] value.t = "int" -> ToString(value.n)
      [] value.t = "float" -> ToString(value.n) \o ".0"
      [] value.t = "nan" -> "nan"

\* The falsy sheet_name (None): line 39 takes the else branch
NoSheetName == ""

\* An output_folder that is no path (None): os.path.join raises TypeError
NonePath == "<None>"

Folders == {"pdf_output", "out"}
Prefixes == {"row", "emp"}
SheetArgs == {NoSheetName, "Sheet2", "Nope"}

\* The rows a sheet with the columns Name, Age can hold
NameCells == {StrV("John"), NaN}
AgeCells == {FloatV(28), NaN}
Sheet1Rows == {<<a, b>> : a \in NameCells, b \in AgeCells}

RowSeqs(n) == [1..n -> Sheet1Rows]

Sheet1s ==
    {[name |-> "Sheet1", columns |-> <<StrV("Name"), StrV("Age")>>, data |-> d] :
        d \in UNION {RowSeqs(n) : n \in 0..MaxRows}}

\* A second sheet with a numeric header and an int cell
Sheet2 == [name |-> "Sheet2", columns |-> <<IntV(2024)>>, data |-> <<<<IntV(7)>>>>]

Workbooks ==
    {[kind |-> "missing", sheets |-> <<>>], [kind |-> "garbage", sheets |-> <<>>]}
    \cup {[kind |-> "workbook", sheets |-> <<s>>] : s \in Sheet1s}
    \cup {[kind |-> "workbook", sheets |-> <<s, Sheet2>>] : s \in Sheet1s}

-----------------------------------------------------------------------------
(* The file system *)

OldDoc == [title |-> "old", table |-> <<>>]
NoFiles == [x \in {} |-> OldDoc]
Unrelated == [x \in {"notes.txt", "row_001.pdf"} |-> OldDoc]

NoDir == [exists |-> FALSE, files |-> NoFiles]
Dir(files) == [exists |-> TRUE, files |-> files]

FileSystems ==
    {[f \in Folders |-> IF f = "pdf_output" THEN a ELSE b] :
        a \in {NoDir, Dir(NoFiles), Dir(Unrelated)}, b \in {NoDir, Dir(Unrelated)}}

\* os.path.exists(excel_file)
PathExists(w) == w.kind # "missing"

\* Path(folder).mkdir(parents=True, exist_ok=True)
Mkdir(filesys, folder) ==
    IF filesys[folder].exists THEN filesys
    ELSE [filesys EXCEPT ![folder] = Dir(NoFiles)]

\* A write that leaves nothing else in the folder
WriteFileAlone(filesys, folder, name, doc) ==
    [filesys EXCEPT ![folder].files = [x \in {name} |-> doc]]

\* doc.build writing pdf_path = os.path.join(folder, name)
WriteFile(filesys, folder, name, doc) ==
    [filesys EXCEPT ![folder].files =
        [x \in (DOMAIN filesys[folder].files) \cup {name} |->
            IF x = name THEN doc ELSE filesys[folder].files[x]]]

-----------------------------------------------------------------------------
(* read_excel_data *)

NoneDf == [isNone |-> TRUE, columns |-> <<>>, index |-> <<>>, data |-> <<>>]

SheetNames(w) == [i \in 1..Len(w.sheets) |-> w.sheets[i].name]

HasSheet(w, name) == \E i \in 1..Len(w.sheets) : w.sheets[i].name = name

SheetNamed(w, name) ==
    w.sheets[CHOOSE i \in 1..Len(w.sheets) : w.sheets[i].name = name]

\* pd.read_excel raises: no file, no workbook, no such sheet
ReadExcelRaises(w, name) ==
    \/ w.kind # "workbook"
    \/ name # NoSheetName /\ ~HasSheet(w, name)

\* pd.read_excel: the frame of the named sheet, or of the first; RangeIndex
ReadExcel(w, name) ==
    LET s == IF name # NoSheetName THEN SheetNamed(w, name) ELSE w.sheets[1]
    IN  [isNone |-> FALSE, columns |-> s.columns,
         index |-> [i \in 1..Len(s.data) |-> i - 1], data |-> s.data]

\* A fill with a marker text instead of the empty string
FillnaMarker(frame) ==
    [frame EXCEPT !.data =
        [i \in 1..Len(frame.data) |->
            [j \in 1..Len(frame.data[i]) |->
                IF IsNa(frame.data[i][j]) THEN StrV("NaN") ELSE frame.data[i][j]]]]

\* df.fillna('')
Fillna(frame) ==
    [frame EXCEPT !.data =
        [i \in 1..Len(frame.data) |->
            [j \in 1..Len(frame.data[i]) |->
                IF IsNa(frame.data[i][j]) THEN StrV("") ELSE frame.data[i][j]]]]

\* A read that answers an empty frame, not None, when pd.read_excel raises
ReadExcelDataEmptyOnError(w, name) ==
    IF ReadExcelRaises(w, name)
    THEN [isNone |-> FALSE, columns |-> <<>>, index |-> <<>>, data |-> <<>>]
    ELSE Fillna(ReadExcel(w, name))

\* read_excel_data, lines 38-52
ReadExcelData(w, name) ==
    IF ReadExcelRaises(w, name) THEN NoneDf ELSE Fillna(ReadExcel(w, name))

\* df.iterrows(): (index label, row) pairs; row.items() is (column, value) pairs
Items(frame, i) ==
    [j \in 1..Len(frame.columns) |-> <<frame.columns[j], frame.data[i][j]>>]

Iterrows(frame) ==
    [i \in 1..Len(frame.data) |-> <<frame.index[i], Items(frame, i)>>]

-----------------------------------------------------------------------------
(* create_pdf_from_row *)

\* f"{n:03d}"
Format03d(n) ==
    IF n < 10 THEN "00" \o ToString(n)
    ELSE IF n < 100 THEN "0" \o ToString(n)
    ELSE ToString(n)

\* A filename numbered with the zero-based index
PdfFilenameZeroBased(prefix, row_index) ==
    prefix \o "_" \o Format03d(row_index) \o ".pdf"

\* Line 64
PdfFilename(prefix, row_index) == prefix \o "_" \o Format03d(row_index + 1) \o ".pdf"

\* Line 84
Title(row_index) == "Record " \o ToString(row_index + 1)

\* Lines 93-98
ValueStr(value) == IF IsNa(value) THEN "" ELSE StrOf(value)

\* A table that leaves out the fields whose value is empty
TableDataSkipEmpty(row_data) ==
    LET kept == SelectSeq(row_data, LAMBDA p : p[2] # StrV(""))
    IN  [k \in 1..Len(kept) |-> <<StrOf(kept[k][1]), StrOf(kept[k][2])>>]

\* Lines 89-100
TableData(row_data) ==
    [k \in 1..Len(row_data) |-> <<StrOf(row_data[k][1]), ValueStr(row_data[k][2])>>]

Document(row_data, row_index) ==
    [title |-> Title(row_index), table |-> TableData(row_data)]

\* What one call of create_pdf_from_row can come to.
\* "raised": lines 63-119 run outside the try of line 122, so what they raise
\* leaves create_pdf_from_row; os.path.join (line 65) raises TypeError on an
\* output_folder that is no path.
\* "build_raised": doc.build (line 123) raised, on a missing folder or on an
\* I/O error; the except of line 125 prints it. The file is opened only when
\* the document is saved, so nothing is written.
\* "built": doc.build returned; it needs the folder to exist.
Outcomes == {"built", "build_raised", "raised"}

OutcomePossible(o, filesys, folder) ==
    CASE o = "raised" -> folder = NonePath
      [] o = "build_raised" -> folder # NonePath
      [] o = "built" -> folder \in Folders /\ filesys[folder].exists

Entry(ev, name, n) == [ev |-> ev, name |-> name, n |-> n]

-----------------------------------------------------------------------------
(* Initial states *)

Init ==
    /\ wb \in Workbooks
    /\ fs \in FileSystems
    /\ fs0 = fs
    /\ caller \in {"main", "api"}
    /\ mpc = "start"
    /\ output_folder = NonePath
    /\ sheets = <<>>
    /\ sheet_name = NoSheetName
    /\ filename_prefix = "row"
    /\ pc = "Idle"
    /\ df = NoneDf
    /\ idx = 0
    /\ reads = 0
    /\ attempted = <<>>
    /\ created = {}
    /\ failedRows = {}
    /\ log = <<>>

runVars == <<fs0, pc, df, idx, reads, attempted, created, failedRows>>

-----------------------------------------------------------------------------
(* The callers *)

\* main, lines 177-180: no file at the path, print and return
MainFileNotFound ==
    /\ caller = "main" /\ mpc = "start"
    /\ ~PathExists(wb)
    /\ mpc' = "exit"
    /\ log' = Append(log, Entry("file_not_found", "", 0))
    /\ UNCHANGED <<wb, fs, caller, output_folder, sheets, sheet_name, filename_prefix>>
    /\ UNCHANGED runVars

\* __init__, lines 21-26; main calls it with the default folder (line 183).
\* mkdir either creates the folder or raises, and then no converter exists.
Construct(folder, mkdir_ok) ==
    /\ mpc = "start"
    /\ caller = "main" => PathExists(wb) /\ folder = "pdf_output"
    /\ fs[folder].exists => mkdir_ok
    /\ output_folder' = folder
    /\ IF mkdir_ok
       THEN /\ fs' = Mkdir(fs, folder)
            /\ mpc' = "constructed"
            /\ log' = log
       ELSE /\ fs' = fs
            /\ mpc' = "raised"
            /\ log' = Append(log, Entry("mkdir_raised", folder, 0))
    /\ UNCHANGED <<wb, caller, sheets, sheet_name, filename_prefix>>
    /\ UNCHANGED runVars

\* list_sheets, lines 157-162
ListSheetsResult(w) == IF w.kind = "workbook" THEN SheetNames(w) ELSE <<>>

\* main, lines 186-187
MainListSheets ==
    /\ caller = "main" /\ mpc = "constructed"
    /\ sheets' = ListSheetsResult(wb)
    /\ mpc' = "listed"
    /\ log' = IF wb.kind = "workbook" THEN log
              ELSE Append(log, Entry("list_error", "", 0))
    /\ UNCHANGED <<wb, fs, caller, output_folder, sheet_name, filename_prefix>>
    /\ UNCHANGED runVars

\* main, lines 190-211: choice is the sheet number typed, 0 for an empty or
\* unparsable line
SelectedSheet(shs, choice) ==
    IF Len(shs) > 1
    THEN IF choice - 1 >= 0 /\ choice - 1 < Len(shs) THEN shs[choice] ELSE shs[1]
    ELSE IF Len(shs) > 0 THEN shs[1] ELSE NoSheetName

MainSelectSheet(choice) ==
    /\ caller = "main" /\ mpc = "listed"
    /\ sheet_name' = SelectedSheet(sheets, choice)
    /\ mpc' = "selected"
    /\ UNCHANGED <<wb, fs, caller, output_folder, sheets, filename_prefix, log>>
    /\ UNCHANGED runVars

\* main, lines 214-216
MainAskPrefix(prefix) ==
    /\ caller = "main" /\ mpc = "selected"
    /\ filename_prefix' = prefix
    /\ mpc' = "prefixed"
    /\ UNCHANGED <<wb, fs, caller, output_folder, sheets, sheet_name, log>>
    /\ UNCHANGED runVars

\* main, lines 219-225: the folder typed replaces output_folder and is created
MainSetFolder(folder, mkdir_ok) ==
    /\ caller = "main" /\ mpc = "prefixed"
    /\ fs[folder].exists => mkdir_ok
    /\ output_folder' = folder
    /\ IF mkdir_ok
       THEN /\ fs' = Mkdir(fs, folder)
            /\ mpc' = "ready"
            /\ log' = log
       ELSE /\ fs' = fs
            /\ mpc' = "raised"
            /\ log' = Append(log, Entry("mkdir_raised", folder, 0))
    /\ UNCHANGED <<wb, caller, sheets, sheet_name, filename_prefix>>
    /\ UNCHANGED runVars

\* A program using the class assigns the attribute, as main does at line 224
ApiSetFolder(folder) ==
    /\ caller = "api" /\ mpc = "constructed"
    /\ output_folder' = folder
    /\ mpc' = "ready"
    /\ UNCHANGED <<wb, fs, caller, sheets, sheet_name, filename_prefix, log>>
    /\ UNCHANGED runVars

\* A program using the class chooses the arguments (example_usage.py 37, 50)
ApiChooseArgs(name, prefix) ==
    /\ caller = "api" /\ mpc \in {"constructed", "ready"}
    /\ sheet_name' = name
    /\ filename_prefix' = prefix
    /\ mpc' = "args"
    /\ UNCHANGED <<wb, fs, caller, output_folder, sheets, log>>
    /\ UNCHANGED runVars

-----------------------------------------------------------------------------
(* convert_all_rows *)

\* The call (main line 228, example_usage.py line 37)
CallConvertAllRows ==
    /\ \/ caller = "main" /\ mpc = "ready"
       \/ caller = "api" /\ mpc = "args"
    /\ pc = "Idle"
    /\ mpc' = "called"
    /\ pc' = "ReadingSheet"
    /\ fs0' = fs
    /\ UNCHANGED <<wb, fs, caller, output_folder, sheets, sheet_name, filename_prefix,
                   df, idx, reads, attempted, created, failedRows, log>>

\* Lines 137-142, with read_excel_data (lines 38-52)
ReadSheet ==
    /\ pc = "ReadingSheet"
    /\ df' = ReadExcelData(wb, sheet_name)
    /\ reads' = reads + 1
    /\ IF df'.isNone
       THEN /\ pc' = "Aborted"
            /\ log' = Append(log, Entry("read_error", "", 0))
       ELSE /\ pc' = "Rendering"
            /\ log' = log \o <<Entry("read", "", Len(df'.data)),
                               Entry("processing", "", Len(df'.data))>>
    /\ UNCHANGED <<wb, fs, fs0, caller, mpc, output_folder, sheets, sheet_name,
                   filename_prefix, idx, attempted, created, failedRows>>

\* One iteration of the loop of lines 145-146: create_pdf_from_row(row, index, prefix)
RenderRow(outcome) ==
    /\ pc = "Rendering"
    /\ idx < Len(df.data)
    /\ OutcomePossible(outcome, fs, output_folder)
    /\ LET it == Iterrows(df)[idx + 1]
           row_index == it[1]
           row_data == it[2]
           pdf_filename == PdfFilename(filename_prefix, row_index)
       IN  /\ attempted' = Append(attempted, row_index)
           /\ CASE outcome = "built" ->
                     /\ fs' = WriteFile(fs, output_folder, pdf_filename,
                                        Document(row_data, row_index))
                     /\ created' = created \cup {pdf_filename}
                     /\ log' = Append(log, Entry("created", pdf_filename, row_index))
                     /\ idx' = idx + 1
                     /\ UNCHANGED <<pc, failedRows>>
                [] outcome = "build_raised" ->
                     /\ failedRows' = failedRows \cup {row_index}
                     /\ log' = Append(log, Entry("error", pdf_filename, row_index))
                     /\ idx' = idx + 1
                     /\ UNCHANGED <<pc, fs, created>>
                [] outcome = "raised" ->
                     /\ pc' = "Raised"
                     /\ failedRows' = failedRows \cup {row_index}
                     /\ UNCHANGED <<fs, created, log, idx>>
    /\ UNCHANGED <<wb, fs0, caller, mpc, output_folder, sheets, sheet_name,
                   filename_prefix, df, reads>>

\* Line 148: the closing message, with len(df) as the number of PDFs created
ReportedCreated(frame, made) == Len(frame.data)

Finish ==
    /\ pc = "Rendering"
    /\ idx = Len(df.data)
    /\ pc' = "Done"
    /\ log' = Append(log, Entry("complete", output_folder, ReportedCreated(df, created)))
    /\ UNCHANGED <<wb, fs, fs0, caller, mpc, output_folder, sheets, sheet_name,
                   filename_prefix, df, idx, reads, attempted, created, failedRows>>

Next ==
    \/ MainFileNotFound
    \/ \E folder \in Folders, ok \in BOOLEAN : Construct(folder, ok)
    \/ MainListSheets
    \/ \E choice \in 0..3 : MainSelectSheet(choice)
    \/ \E prefix \in Prefixes : MainAskPrefix(prefix)
    \/ \E folder \in Folders, ok \in BOOLEAN : MainSetFolder(folder, ok)
    \/ \E folder \in Folders \cup {NonePath} : ApiSetFolder(folder)
    \/ \E name \in SheetArgs, prefix \in Prefixes : ApiChooseArgs(name, prefix)
    \/ CallConvertAllRows
    \/ ReadSheet
    \/ \E outcome \in Outcomes : RenderRow(outcome)
    \/ Finish

Spec == Init /\ [][Next]_vars

TypeOK ==
    /\ wb \in Workbooks
    /\ caller \in {"main", "api"}
    /\ output_folder \in Folders \cup {NonePath}
    /\ pc \in {"Idle", "ReadingSheet", "Rendering", "Done", "Aborted", "Raised"}
    /\ idx \in 0..MaxRows

-----------------------------------------------------------------------------
(* Properties *)

\* The sheet of the workbook that the run's sheet_name selects
SourceSheet ==
    IF sheet_name # NoSheetName THEN SheetNamed(wb, sheet_name) ELSE wb.sheets[1]

\* The sheet has been read into df
SheetRead == pc \in {"Rendering", "Done", "Raised"}

\* k written with three digits, zero-padded (k < 1000)
ThreeDigits(k) ==
    ToString((k \div 100) % 10) \o ToString((k \div 10) % 10) \o ToString(k % 10)

NumberedName(prefix, k) == prefix \o "_" \o ThreeDigits(k) \o ".pdf"

RunNames == {NumberedName(filename_prefix, k) : k \in 1..Len(df.data)}

FolderExists == output_folder \in Folders /\ fs[output_folder].exists

LastLog == log[Len(log)]

\* C1: a run over a sheet of N rows in which no row fails ends with exactly
\* the N files prefix_001.pdf .. prefix_N.pdf written, the row at position i
\* in the file numbered i+1, and nothing else added to the output folder.
C1_SequentialFiles ==
    (pc = "Done" /\ failedRows = {}) =>
        LET N == Len(df.data)
        IN  /\ created = RunNames
            /\ Cardinality(created) = N
            /\ N > 0 => FolderExists
            /\ output_folder \in Folders =>
                 /\ DOMAIN fs[output_folder].files
                      = (DOMAIN fs0[output_folder].files) \cup RunNames
                 /\ \A i \in 1..N :
                      fs[output_folder].files[NumberedName(filename_prefix, i)]
                        = Document(Items(df, i), i - 1)

C1_Witness ==
    /\ pc = "Done" /\ failedRows = {}
    /\ Len(df.data) = 2
    /\ filename_prefix = "emp"
    /\ DOMAIN fs[output_folder].files = {"emp_001.pdf", "emp_002.pdf"}

\* C2: a row whose rendering or writing fails does not end the batch: every
\* row after it is still attempted, its own file is not written, and the
\* file of every row that did not fail is there.
C2_RowFailureNonFatal ==
    (pc \in {"Done", "Raised"}) =>
        /\ Len(attempted) = Len(df.data)
        /\ \A i \in 1..Len(df.data) :
             IF (i - 1) \in failedRows
             THEN NumberedName(filename_prefix, i) \notin created
             ELSE /\ FolderExists
                  /\ NumberedName(filename_prefix, i) \in DOMAIN fs[output_folder].files

\* C3: the number of documents reported as created when the run finishes is
\* the number of documents written in the run (N - k when k rows failed).
C3_ReportedCountIsCreated ==
    pc = "Done" =>
        /\ LastLog.ev = "complete"
        /\ LastLog.n = Cardinality(created)
        /\ LastLog.n = Len(df.data) - Cardinality(failedRows)

\* C4: when reading the sheet fails (no file, no workbook, no such sheet) the
\* run aborts: the failure is printed, create_pdf_from_row is never called and
\* the file system is as it was when the run began.
C4_ReadFailureAborts ==
    (pc \notin {"Idle", "ReadingSheet"} /\ ReadExcelRaises(wb, sheet_name)) =>
        /\ pc = "Aborted"
        /\ LastLog.ev = "read_error"
        /\ attempted = <<>>
        /\ created = {}
        /\ fs = fs0

C4_Witness ==
    /\ pc = "Aborted"
    /\ wb.kind = "workbook"
    /\ sheet_name = "Nope"
    /\ fs[output_folder].exists

\* C5: no row is rendered while the folder named by the converter's current
\* output_folder has not been created, however the output folder was chosen.
C5_FolderEnsuredBeforeRows ==
    (pc = "Rendering" /\ idx < Len(df.data) /\ output_folder \in Folders) =>
        fs[output_folder].exists

\* C6: the table create_pdf_from_row builds for a row has one row per column
\* of the row, in the column order, each pairing the column's name with that
\* column's own value.
C6_TableFollowsColumns ==
    (SheetRead /\ output_folder \in Folders) =>
        \A i \in 1..Len(df.data) :
            NumberedName(filename_prefix, i) \in created =>
                LET table == fs[output_folder].files[NumberedName(filename_prefix, i)].table
                IN  /\ Len(table) = Len(df.columns)
                    /\ \A j \in 1..Len(df.columns) :
                         /\ table[j][1] = StrOf(df.columns[j])
                         /\ table[j][2] = StrOf(df.data[i][j])

C6_Witness ==
    /\ pc = "Done"
    /\ "row_002.pdf" \in created
    /\ fs[output_folder].files["row_002.pdf"].table = <<<<"Name", "John">>, <<"Age", "">>>>

\* C7: a cell that is missing in the source sheet keeps its column key in the
\* row read_excel_data returns, with the empty string as value, and is
\* rendered as the empty string; any other cell is rendered as its default
\* string form.
C7_MissingRendersEmpty ==
    SheetRead =>
        \A i \in 1..Len(SourceSheet.data) :
            /\ Len(df.data[i]) = Len(SourceSheet.columns)
            /\ \A j \in 1..Len(SourceSheet.columns) :
                 LET cell == SourceSheet.data[i][j]
                     name == NumberedName(filename_prefix, i)
                 IN  /\ IsNa(cell) => df.data[i][j] = StrV("")
                     /\ name \in created =>
                          LET shown == fs[output_folder].files[name].table[j][2]
                          IN  /\ IsNa(cell) => shown = ""
                              /\ ~IsNa(cell) => shown = StrOf(cell)
                              /\ shown \notin {"null", "None", "NaN", "nan"}

C7_Witness ==
    /\ pc = "Done"
    /\ SourceSheet.data = <<<<NaN, FloatV(28)>>>>
    /\ "row_001.pdf" \in created
    /\ fs[output_folder].files["row_001.pdf"].table = <<<<"Name", "">>, <<"Age", "28.0">>>>

\* C8: every file that was in a folder before the run and is not one of the
\* run's own prefix_NNN.pdf names is still there, unchanged, whether the run
\* succeeds, has failing rows or aborts.
C8_UnrelatedFilesKept ==
    \A f \in Folders :
        /\ fs0[f].exists => fs[f].exists
        /\ \A x \in DOMAIN fs0[f].files :
             (f # output_folder \/ x \notin RunNames) =>
                 /\ x \in DOMAIN fs[f].files
                 /\ fs[f].files[x] = fs0[f].files[x]

C8_Witness ==
    /\ pc = "Done"
    /\ output_folder \in Folders
    /\ created = {"row_001.pdf", "row_002.pdf"}
    /\ DOMAIN fs0[output_folder].files = {"notes.txt", "row_001.pdf"}
    /\ fs[output_folder].files["notes.txt"] = OldDoc
    /\ fs[output_folder].files["row_001.pdf"] # OldDoc

\* C9: when the source is unreadable list_sheets ends in an error outcome, so
\* main never goes on to sheet selection and conversion with its result.
C9_UnreadableStopsMain ==
    (caller = "main" /\ wb.kind # "workbook") =>
        mpc \notin {"selected", "prefixed", "ready", "called"}

\* C10: a run that has read its sheet attempts the rows once each, in the
\* reader's order, row at position i with record index i, one after the
\* other, reads the sheet once, and ends in Done with every row attempted.
C10_SequentialRunToDone ==
    /\ reads <= 1
    /\ \A k \in 1..Len(attempted) : attempted[k] = k - 1
    /\ SheetRead => pc \in {"Rendering", "Done"}
    /\ pc = "Rendering" => Len(attempted) = idx
    /\ pc = "Done" => Len(attempted) = Len(df.data)

\* The part of C10 that does not depend on the run ending: one read, rows in
\* order, none twice.
C10_OrderedOnce ==
    /\ reads <= 1
    /\ \A k \in 1..Len(attempted) : attempted[k] = k - 1
    /\ Len(attempted) <= Len(df.data)
    /\ pc = "Done" => Len(attempted) = Len(df.data)

====
